---- MODULE Spec2Model ----
(***************************************************************************)
(* Model of ILAMB's ModelResult (src/src/ILAMB/ModelResult.py):            *)
(* construction with the optional grid files, and the composition of one   *)
(* time series out of the netCDF files of a model directory, as done by    *)
(* extractPointTimeSeries and extractTimeSeries.                           *)
(*                                                                         *)
(* Times are integers (days), a file holds one variable on a contiguous    *)
(* run of times, and the value stored at one time is an opaque sample,     *)
(* numbered so that the file and the time it came from stay visible.  A   *)
(* sample stands for the value together with its mask bit, which the       *)
(* source copies slice by slice alongside the value.                       *)
(***************************************************************************)
EXTENDS Integers, Sequences, FiniteSets, TLC

VARIABLES
    gridfiles,      \* which grid files exist under path: [areacella, sftlf]
    files,          \* the data files glob returns, in glob order
    variable,       \* argument: primary variable name
    alt_vars,       \* argument: alternate names, in priority order
    initial_time,   \* argument
    final_time,     \* argument
    output_unit,    \* argument, "" when not requested
    convert,        \* the conversion table of ILAMB.constants
    pc,             \* position of the caller / of the running call
    cell_areas, land_fraction, land_areas, land_area,
    lat, lon, lat_bnds, lon_bnds,
    altvars,        \* local: [variable] + alt_vars
    data,           \* local: list of (t, var, vname, nt)
    ntimes,         \* local: running total of in-window points
    unit,           \* local: unit of the last successful extraction
    tc,             \* local: composite times
    varc,           \* local: composite values
    raised          \* <<>> or <<exception, site>>

vars == << gridfiles, files, variable, alt_vars, initial_time, final_time,
           output_unit, convert, pc, cell_areas, land_fraction, land_areas,
           land_area, lat, lon, lat_bnds, lon_bnds, altvars, data, ntimes,
           unit, tc, varc, raised >>

gridvars == << cell_areas, land_fraction, land_areas, land_area,
               lat, lon, lat_bnds, lon_bnds >>

inputs == << gridfiles, files, variable, alt_vars, initial_time, final_time,
             output_unit, convert >>

locals == << altvars, data, ntimes, unit, tc, varc >>

----------------------------------------------------------------------------
(* Bounds of the checked input families. *)

\* files under the model directory, name-preference family
MaxFiles == 2
\* largest time stamp, name-preference family
MaxTime == 1
\* files under the model directory, overlap family
MaxOverlapFiles == 4
\* largest time stamp, overlap family
MaxOverlapTime == 3
\* files under the model directory, unit family
MaxUnitFiles == 2
\* files under the model directory, window family
MaxWindowFiles == 3
\* largest time stamp, window family
MaxWindowTime == 2

\* Python's None
Null == <<>>

\* the value of a local that has not been assigned yet
Unbound == "unbound"

NoException == <<>>

----------------------------------------------------------------------------
(* Small sequence helpers. *)

RECURSIVE SeqSum(_)
SeqSum(s) == IF s = <<>> THEN 0 ELSE Head(s) + SeqSum(Tail(s))

Last(s) == s[Len(s)]

\* numpy boolean-mask selection s[mask]
RECURSIVE Select(_, _)
Select(s, mask) ==
    IF s = <<>> THEN <<>>
    ELSE (IF Head(mask) THEN <<Head(s)>> ELSE <<>>) \o Select(Tail(s), Tail(mask))

\* list.pop(i) with a 0-based index: the list without element i
Pop(s, i) == [k \in 1..(Len(s) - 1) |-> IF k <= i THEN s[k] ELSE s[k + 1]]

\* np.zeros(n)
Zeros(n) == [k \in 1..n |-> 0]

----------------------------------------------------------------------------
(* ModelResult.__init__ and _getGridInformation. *)

\* contents of the *areacella*.nc file, a grid of two latitudes by one longitude
AreacellaFile ==
    [ areacella |-> <<4, 6>>,
      lat       |-> <<10, 30>>,
      lon       |-> <<100>>,
      lat_bnds  |-> << <<0, 20>>, <<20, 40>> >>,
      lon_bnds  |-> << <<50, 150>> >> ]

\* contents of the *sftlf*.nc file, on the same grid
SftlfFile == [ sftlf |-> <<1, 0>> ]

\* bnds[:-1] = pairs[:,0]; bnds[-1] = pairs[-1,1]
Bounds(pairs) ==
    [k \in 1..(Len(pairs) + 1) |->
        IF k <= Len(pairs) THEN pairs[k][1] ELSE pairs[Len(pairs)][2]]

\* elementwise product of two arrays of the same shape
Times(a, b) == [k \in 1..Len(a) |-> a[k] * b[k]]

Construct ==
    /\ pc = "new"
    /\ LET hasCell == gridfiles.areacella
           hasLand == gridfiles.sftlf
           ca      == IF hasCell THEN AreacellaFile.areacella ELSE Null
       IN  /\ cell_areas' = ca
           /\ lat'      = IF hasCell THEN AreacellaFile.lat ELSE Null
           /\ lon'      = IF hasCell THEN AreacellaFile.lon ELSE Null
           /\ lat_bnds' = IF hasCell THEN Bounds(AreacellaFile.lat_bnds) ELSE Null
           /\ lon_bnds' = IF hasCell THEN Bounds(AreacellaFile.lon_bnds) ELSE Null
           /\ land_fraction' = IF hasLand THEN SftlfFile.sftlf ELSE Null
           /\ IF hasLand /\ ca = Null
              THEN \* None * array
                   /\ land_areas' = Null
                   /\ land_area'  = Null
                   /\ raised' = <<"TypeError", "_getGridInformation">>
                   /\ pc' = "raised"
              ELSE /\ land_areas' = IF hasLand THEN Times(ca, SftlfFile.sftlf) ELSE Null
                   /\ land_area'  = IF hasLand
                                    THEN <<SeqSum(Times(ca, SftlfFile.sftlf))>>
                                    ELSE Null
                   /\ raised' = NoException
                   /\ pc' = "ready"
    /\ UNCHANGED << inputs, locals >>

----------------------------------------------------------------------------
(* The per-file extraction primitive of ilamblib. *)

\* distance between the sample numbers of two files
Stride == MaxTime + MaxOverlapTime + MaxWindowTime + 2

\* the sample file number f stores at time x
Sample(f, x) == f * Stride + x + 1

\* il.ExtractTimeSeries on file number f: (t, var, unit), or VarNotInFile
\* (ok is FALSE) when the file holds another variable
ExtractTimeSeries(f, vname) ==
    IF files[f].vname = vname
    THEN [ ok   |-> TRUE,
           t    |-> files[f].t,
           var  |-> [k \in 1..Len(files[f].t) |-> Sample(f, files[f].t[k])],
           unit |-> files[f].unit ]
    ELSE [ ok |-> FALSE ]

\* il.ExtractPointTimeSeries on file number f: the same series, its samples
\* standing for the values at the grid point nearest to (la, lo)
ExtractPointTimeSeries(f, vname, la, lo) == ExtractTimeSeries(f, vname)

\* the points a caller asks for
Points == { [lat |-> AreacellaFile.lat[i], lon |-> AreacellaFile.lon[j]] :
            i \in DOMAIN AreacellaFile.lat, j \in DOMAIN AreacellaFile.lon }

----------------------------------------------------------------------------
(* The composition shared by extractPointTimeSeries and extractTimeSeries. *)

\* Mask with the window open at its start
MaskOpen(t) == [k \in 1..Len(t) |-> t[k] > initial_time /\ t[k] <= final_time]

\* (t >= initial_time) * (t <= final_time)
Mask(t) == [k \in 1..Len(t) |-> t[k] >= initial_time /\ t[k] <= final_time]

\* mask.sum()
Count(t) == Len(Select(t, Mask(t)))

\* the body of the loop over vname for one file and one name
ScanStep(acc, ext, f, vname) ==
    LET r == ext[f, vname]
    IN  IF ~r.ok THEN acc
        ELSE LET nt == Count(r.t)
             IN  [ data   |-> IF nt = 0 THEN acc.data
                              ELSE Append(acc.data, [t |-> r.t, var |-> r.var,
                                                     vname |-> vname, nt |-> nt]),
                   ntimes |-> acc.ntimes + nt,
                   unit   |-> r.unit ]

\* the loop over altvars for file f, from name number k on
RECURSIVE ScanNames(_, _, _, _, _)
ScanNames(acc, ext, f, names, k) ==
    IF k > Len(names) THEN acc
    ELSE ScanNames(ScanStep(acc, ext, f, names[k]), ext, f, names, k + 1)

\* the loop over the files glob returned, from file number f on
RECURSIVE ScanFiles(_, _, _, _)
ScanFiles(acc, ext, names, f) ==
    IF f > Len(files) THEN acc
    ELSE ScanFiles(ScanNames(acc, ext, f, names, 1), ext, names, f + 1)

\* Thin without the preference: the candidates of every name
ThinAll(d, names, k) ==
    SelectSeq(d, LAMBDA e : \E j \in k..Len(names) : e.vname = names[j])

\* the candidates of the first name of names that has any
RECURSIVE Thin(_, _, _)
Thin(d, names, k) ==
    IF k > Len(names) THEN <<>>
    ELSE LET thin == SelectSeq(d, LAMBDA e : e.vname = names[k])
         IN  IF Len(thin) > 0 THEN thin ELSE Thin(d, names, k + 1)

\* sorted() is stable: e goes behind every entry whose key is not larger
RECURSIVE Insert(_, _)
Insert(s, e) ==
    IF s = <<>> THEN <<e>>
    ELSE IF Last(s).t[1] <= e.t[1] THEN Append(s, e)
         ELSE Append(Insert(SubSeq(s, 1, Len(s) - 1), e), Last(s))

RECURSIVE SortedByFirstTime(_)
SortedByFirstTime(d) ==
    IF d = <<>> THEN <<>>
    ELSE Insert(SortedByFirstTime(SubSeq(d, 1, Len(d) - 1)), Last(d))

\* mono[:-1] > mono[1:] over the last times of the sorted list
Mono(d) == [k \in 1..(Len(d) - 1) |-> Last(d[k].t) > Last(d[k + 1].t)]

\* PopLoop that leaves the running total alone
RECURSIVE PopLoopKeepTotal(_, _, _)
PopLoopKeepTotal(st, mono, i) ==
    IF i >= Len(mono) \/ st.err THEN st
    ELSE IF ~mono[i + 1] THEN PopLoopKeepTotal(st, mono, i + 1)
    ELSE IF i >= Len(st.data)
         THEN [st EXCEPT !.err = TRUE]
         ELSE PopLoopKeepTotal([st EXCEPT !.data = Pop(st.data, i)], mono, i + 1)

\* for i in range(mono.shape[0]): if mono[i]: pop(i); i is 0-based
RECURSIVE PopLoop(_, _, _)
PopLoop(st, mono, i) ==
    IF i >= Len(mono) \/ st.err THEN st
    ELSE IF ~mono[i + 1] THEN PopLoop(st, mono, i + 1)
    ELSE IF i >= Len(st.data)
         THEN [st EXCEPT !.err = TRUE]
         ELSE PopLoop([ data   |-> Pop(st.data, i),
                        ntimes |-> st.ntimes - Count(st.data[i + 1].t),
                        err    |-> FALSE ],
                      mono, i + 1)

\* a[begin:end] = src, for 0-based begin; the slice is cut at the end of a
WriteSlice(a, begin, src) ==
    [k \in 1..Len(a) |->
        IF k > begin /\ k <= begin + Len(src) THEN src[k - begin] ELSE a[k]]

\* the loop over d that fills tc and varc, from entry k on
RECURSIVE Fill(_, _, _)
Fill(st, d, k) ==
    IF k > Len(d) \/ st.err THEN st
    ELSE LET mask == Mask(d[k].t)
             tsel == Select(d[k].t, mask)
             vsel == Select(d[k].var, mask)
             end  == st.begin + Len(tsel)
         IN  IF end > Len(st.tc)
             THEN [st EXCEPT !.err = TRUE]
             ELSE Fill([ tc    |-> WriteSlice(st.tc, st.begin, tsel),
                         varc  |-> WriteSlice(st.varc, st.begin, vsel),
                         begin |-> end,
                         err   |-> FALSE ],
                       d, k + 1)

\* whether convert[v][to][from] exists; a KeyError otherwise
HasFactor(v, to, from) == <<v, to, from>> \in DOMAIN convert

\* convert[v][to][from]
Factor(v, to, from) == convert[<<v, to, from>>]

\* Scale with the factor applied twice
ScaleTwice(v, factor) == [k \in 1..Len(v) |-> v[k] * factor * factor]

\* varc *= factor
Scale(v, factor) == [k \in 1..Len(v) |-> v[k] * factor]

----------------------------------------------------------------------------
(* The call, in the stages of the source. *)

\* lines 100-118 and 211-229: candidate collection and the first check
Collect(ext) ==
    /\ pc = "ready"
    /\ LET names == <<variable>> \o alt_vars
           acc   == ScanFiles([data |-> <<>>, ntimes |-> 0, unit |-> Unbound],
                              ext, names, 1)
       IN  /\ altvars' = names
           /\ data'    = acc.data
           /\ ntimes'  = acc.ntimes
           /\ unit'    = acc.unit
           /\ IF acc.ntimes = 0
              THEN /\ raised' = <<"VarNotInModel", "first check">>
                   /\ pc' = "raised"
              ELSE /\ raised' = raised
                   /\ pc' = "thin"
    /\ UNCHANGED << inputs, gridvars, tc, varc >>

\* the names the call tries
Names == { variable } \cup { alt_vars[k] : k \in DOMAIN alt_vars }

extractPointTimeSeries ==
    \E p \in Points :
        Collect([f \in DOMAIN files, v \in Names |->
                    ExtractPointTimeSeries(f, v, p.lat, p.lon)])

extractTimeSeries ==
    Collect([f \in DOMAIN files, v \in Names |-> ExtractTimeSeries(f, v)])

\* lines 121-132 and 232-243: preference resolution and the second check
Prefer ==
    /\ pc = "thin"
    /\ LET thin == Thin(data, altvars, 1)
           n    == SeqSum([k \in 1..Len(thin) |-> thin[k].nt])
       IN  /\ data'   = thin
           /\ ntimes' = n
           /\ IF n = 0
              THEN /\ raised' = <<"VarNotInModel", "second check">>
                   /\ pc' = "raised"
              ELSE /\ raised' = raised
                   /\ pc' = "sort"
    /\ UNCHANGED << inputs, gridvars, altvars, unit, tc, varc >>

\* lines 135-142 and 246-253: sort by first time, remove overlapping data
RemoveOverlap ==
    /\ pc = "sort"
    /\ LET sorted == SortedByFirstTime(data)
           st     == PopLoop([data |-> sorted, ntimes |-> ntimes, err |-> FALSE],
                             Mono(sorted), 0)
       IN  /\ data'   = st.data
           /\ ntimes' = st.ntimes
           /\ IF st.err
              THEN /\ raised' = <<"IndexError", "pop">>
                   /\ pc' = "raised"
              ELSE /\ raised' = raised
                   /\ pc' = "assemble"
    /\ UNCHANGED << inputs, gridvars, altvars, unit, tc, varc >>

\* lines 143-158 and 254-269: allocate and fill the composite
Assemble ==
    /\ pc = "assemble"
    /\ IF data = <<>>
       THEN /\ raised' = <<"IndexError", "data[0]">>
            /\ pc' = "raised"
            /\ UNCHANGED << tc, varc >>
       ELSE LET st == Fill([ tc |-> Zeros(ntimes), varc |-> Zeros(ntimes),
                             begin |-> 0, err |-> FALSE ], data, 1)
            IN  /\ tc'   = st.tc
                /\ varc' = st.varc
                /\ IF st.err
                   THEN /\ raised' = <<"ValueError", "fill">>
                        /\ pc' = "raised"
                   ELSE /\ raised' = raised
                        /\ pc' = "convert"
    /\ UNCHANGED << inputs, gridvars, altvars, data, ntimes, unit >>

\* lines 160-167 and 271-278: unit conversion and return
Convert ==
    /\ pc = "convert"
    /\ IF output_unit # ""
       THEN IF HasFactor(variable, output_unit, unit)
            THEN /\ varc' = Scale(varc, Factor(variable, output_unit, unit))
                 /\ unit' = output_unit
                 /\ raised' = raised
                 /\ pc' = "returned"
            ELSE /\ raised' = <<"UnknownUnit", "convert">>
                 /\ pc' = "raised"
                 /\ UNCHANGED << varc, unit >>
       ELSE /\ pc' = "returned"
            /\ UNCHANGED << varc, unit, raised >>
    /\ UNCHANGED << inputs, gridvars, altvars, data, ntimes, tc >>

Next ==
    \/ Construct
    \/ extractPointTimeSeries
    \/ extractTimeSeries
    \/ Prefer
    \/ RemoveOverlap
    \/ Assemble
    \/ Convert

----------------------------------------------------------------------------
(* Input families. *)

\* a contiguous run of times a..b
Run(a, b) == [k \in 1..(b - a + 1) |-> a + k - 1]

Runs(maxT) == { Run(a, b) : a \in 0..maxT, b \in 0..maxT } \ { <<>> }

\* the listings of a directory of at most n files
Listings(n, fileset) == UNION { [1..k -> fileset] : k \in 0..n }

\* the table with every known factor registered
FullTable ==
    ( <<"gpp", "g", "kg">> :> 3 ) @@ ( <<"gpp", "kg", "kg">> :> 1 ) @@
    ( <<"GPP", "g", "kg">> :> 5 ) @@ ( <<"gpp", "kg", "g">> :> 2 )

Restrict(f, S) == [x \in S |-> f[x]]

Tables == { Restrict(FullTable, S) : S \in SUBSET DOMAIN FullTable }

\* the state before the constructor runs
Start ==
    /\ pc = "new"
    /\ cell_areas = Null /\ land_fraction = Null /\ land_areas = Null
    /\ land_area = Null /\ lat = Null /\ lon = Null
    /\ lat_bnds = Null /\ lon_bnds = Null
    /\ altvars = <<>> /\ data = <<>> /\ ntimes = 0 /\ unit = Unbound
    /\ tc = <<>> /\ varc = <<>> /\ raised = NoException

BothGridFiles == [areacella |-> TRUE, sftlf |-> TRUE]

\* several alternate names, one unit, every window
InitPref ==
    /\ Start
    /\ gridfiles = BothGridFiles
    /\ variable = "gpp"
    /\ alt_vars \in { <<>>, <<"GPP">>, <<"GPP", "npp">>, <<"npp", "GPP">> }
    /\ files \in Listings(MaxFiles, [vname : {"gpp", "GPP", "npp"},
                                      t : Runs(MaxTime), unit : {"kg"}])
    /\ initial_time \in 0..MaxTime
    /\ final_time \in 0..MaxTime
    /\ initial_time <= final_time
    /\ output_unit = ""
    /\ convert = Restrict(FullTable, {})

Init == InitPref

Spec == Init /\ [][Next]_vars

\* one name, many files, longer runs
InitOverlap ==
    /\ Start
    /\ gridfiles = BothGridFiles
    /\ variable = "gpp"
    /\ alt_vars = <<>>
    /\ files \in Listings(MaxOverlapFiles, [vname : {"gpp"},
                                             t : Runs(MaxOverlapTime), unit : {"kg"}])
    /\ initial_time \in {0, 1}
    /\ final_time \in {MaxOverlapTime - 1, MaxOverlapTime}
    /\ output_unit = ""
    /\ convert = Restrict(FullTable, {})

SpecOverlap == InitOverlap /\ [][Next]_vars

\* two names, two units, single-sample files, every table
InitUnit ==
    /\ Start
    /\ gridfiles = BothGridFiles
    /\ variable = "gpp"
    /\ alt_vars = <<"GPP">>
    /\ files \in Listings(MaxUnitFiles, [vname : {"gpp", "GPP"},
                                          t : { <<a>> : a \in 0..MaxTime },
                                          unit : {"kg", "g"}])
    /\ initial_time \in {0, 1}
    /\ final_time = MaxTime
    /\ output_unit \in {"", "kg", "g"}
    /\ convert \in Tables

SpecUnit == InitUnit /\ [][Next]_vars

\* one name, every window
InitWindow ==
    /\ Start
    /\ gridfiles = BothGridFiles
    /\ variable = "gpp"
    /\ alt_vars = <<>>
    /\ files \in Listings(MaxWindowFiles, [vname : {"gpp"},
                                            t : Runs(MaxWindowTime), unit : {"kg"}])
    /\ initial_time \in 0..MaxWindowTime
    /\ final_time \in 0..MaxWindowTime
    /\ initial_time <= final_time
    /\ output_unit = ""
    /\ convert = Restrict(FullTable, {})

SpecWindow == InitWindow /\ [][Next]_vars

\* every combination of grid files
InitGrid ==
    /\ Start
    /\ gridfiles \in [areacella : BOOLEAN, sftlf : BOOLEAN]
    /\ variable = "gpp"
    /\ alt_vars = <<>>
    /\ files \in Listings(MaxUnitFiles, [vname : {"gpp"},
                                          t : { <<a>> : a \in 0..MaxTime },
                                          unit : {"kg"}])
    /\ initial_time \in {0, 1}
    /\ final_time = MaxTime
    /\ output_unit = ""
    /\ convert = Restrict(FullTable, {})

SpecGrid == InitGrid /\ [][Next]_vars

----------------------------------------------------------------------------
(* What the inputs say, read off the files and the arguments directly. *)

NameList == <<variable>> \o alt_vars

InWindow(x) == initial_time <= x /\ x <= final_time

\* file f has a time stamp inside the window
FileInWindow(f) == \E k \in DOMAIN files[f].t : InWindow(files[f].t[k])

\* some file holds the name with a time stamp inside the window
Present(name) ==
    \E f \in DOMAIN files : files[f].vname = name /\ FileInWindow(f)

AnyPresent == \E k \in DOMAIN NameList : Present(NameList[k])

\* the first name in priority order that is present
BestName ==
    NameList[CHOOSE k \in DOMAIN NameList :
                /\ Present(NameList[k])
                /\ \A j \in 1..(k - 1) : ~Present(NameList[j])]

\* the unit reported by the last extraction that succeeded, in scan order
LastUnit ==
    LET hits == { f \in DOMAIN files : files[f].vname \in Names }
    IN  files[CHOOSE f \in hits : \A g \in hits : g <= f].unit

\* file f is the source of a candidate still in data
Contributor(f) ==
    \E k \in DOMAIN data : data[k].var[1] = Sample(f, data[k].t[1])

\* composite point k is the sample of file f at time tc[k], scaled by factor
PointFrom(k, f, factor) ==
    /\ \E j \in DOMAIN files[f].t : files[f].t[j] = tc[k]
    /\ varc[k] = Sample(f, tc[k]) * factor

RECURSIVE Concat(_)
Concat(ss) == IF ss = <<>> THEN <<>> ELSE Head(ss) \o Concat(Tail(ss))

InWindowTimes(t) == SelectSeq(t, InWindow)

\* the call got as far as the unit conversion
ReachedConvert == pc = "returned" \/ raised = <<"UnknownUnit", "convert">>

\* the call has ended, one way or the other
CallEnded ==
    \/ pc = "returned"
    \/ pc = "raised" /\ raised[2] # "_getGridInformation"

----------------------------------------------------------------------------
(* Claims. *)

\* C1: when the call returns, every point of the composite is a sample of a
\* file of one name, the first name in priority order that has a time stamp
\* inside the window; no point of a lower-priority name appears.
C1_PreferenceExclusive ==
    pc = "returned" =>
        /\ Len(tc) = Len(varc)
        /\ \A k \in DOMAIN data : data[k].vname = BestName
        /\ \A k \in DOMAIN tc :
              \E f \in DOMAIN files :
                  files[f].vname = BestName /\ PointFrom(k, f, 1)

\* C1 witness: the call returned the first alternate although the second
\* alternate has data inside the window too, in a file scanned earlier.
C1_Witness ==
    /\ pc = "returned"
    /\ alt_vars = <<"GPP", "npp">>
    /\ BestName = "GPP"
    /\ Len(files) = 2
    /\ files[1].vname = "npp" /\ FileInWindow(1)

\* C2: the call fails with VarNotInModel exactly when no extraction has a
\* time stamp inside the inclusive window; a returned composite is never
\* empty; the second check never fails.
C2_NoSilentEmpty ==
    /\ CallEnded => ((raised # NoException /\ raised[1] = "VarNotInModel")
                        <=> ~AnyPresent)
    /\ pc = "returned" => Len(tc) >= 1 /\ Len(varc) >= 1
    /\ raised # <<"VarNotInModel", "second check">>

\* C2 witness: every name was extracted from some file, all of it outside
\* the window, and the call failed.
C2_Witness ==
    /\ pc = "raised"
    /\ raised = <<"VarNotInModel", "first check">>
    /\ \E f \in DOMAIN files : files[f].vname = variable
    /\ \E f \in DOMAIN files : files[f].vname \in Names \ {variable}

\* C3: when the call returns, the composite times are exactly the in-window
\* times of the surviving candidates, concatenated in sorted order; the
\* allocated length is the sum of their in-window counts, so every slot is
\* filled and no slice runs past the end.
C3_ExactFill ==
    /\ raised # <<"ValueError", "fill">>
    /\ pc = "returned" =>
          /\ tc = Concat([k \in DOMAIN data |-> InWindowTimes(data[k].t)])
          /\ \A i, j \in DOMAIN data : i < j => data[i].t[1] <= data[j].t[1]
          /\ Len(tc) = ntimes
          /\ ntimes = SeqSum([k \in DOMAIN data |-> Len(InWindowTimes(data[k].t))])
          /\ \A k \in DOMAIN tc : InWindow(tc[k])
          /\ \A k \in DOMAIN tc : \E f \in DOMAIN files : PointFrom(k, f, 1)

\* C3 witness: three files reach into the window, one was removed as
\* overlapping, and the window cuts a surviving candidate.
C3_Witness ==
    /\ pc = "returned"
    /\ Cardinality({ f \in DOMAIN files : FileInWindow(f) }) = 3
    /\ Len(data) = 2
    /\ \E k \in DOMAIN data : data[k].nt < Len(data[k].t)

\* C4: when the call returns, the composite times are strictly increasing
\* (every file's own times are).
C4_StrictlyIncreasing ==
    pc = "returned" => \A k \in 1..(Len(tc) - 1) : tc[k] < tc[k + 1]

\* C5: a call that fails, fails with VarNotInModel or UnknownUnit.
C5_ClosedFailureSet ==
    (pc = "raised" /\ raised[2] # "_getGridInformation")
        => raised[1] \in {"VarNotInModel", "UnknownUnit"}

\* C6: a requested output unit that differs from the extracted unit: with a
\* registered factor the call returns every composite value times that
\* factor, once, and the output unit; without one it fails with UnknownUnit.
C6_UnitConversion ==
    (ReachedConvert /\ output_unit # "" /\ output_unit # LastUnit) =>
        IF <<variable, output_unit, LastUnit>> \in DOMAIN convert
        THEN /\ pc = "returned"
             /\ unit = output_unit
             /\ \A k \in DOMAIN varc :
                   \E f \in DOMAIN files :
                       PointFrom(k, f, convert[<<variable, output_unit, LastUnit>>])
        ELSE /\ pc = "raised"
             /\ raised = <<"UnknownUnit", "convert">>

\* C6 witness: two samples in kg were returned in g, the factor registered.
C6_Witness ==
    /\ pc = "returned"
    /\ output_unit = "g"
    /\ LastUnit = "kg"
    /\ Len(varc) = 2
    /\ convert[<<variable, "g", "kg">>] = 3

\* C7: when no output unit is requested, or the one requested is the
\* extracted unit, the call returns the composite unchanged in that unit,
\* whatever the table holds.
C7_NoConversionWhenSame ==
    (ReachedConvert /\ (output_unit = "" \/ output_unit = LastUnit)) =>
        /\ pc = "returned"
        /\ unit = LastUnit
        /\ \A k \in DOMAIN varc : \E f \in DOMAIN files : PointFrom(k, f, 1)

\* C8: construction completes for every combination of grid files; the
\* attributes of an absent file stay null.
C8_MissingGridFilesNoError ==
    pc # "new" =>
        /\ raised # <<"TypeError", "_getGridInformation">>
        /\ ~gridfiles.areacella =>
              /\ cell_areas = Null /\ lat = Null /\ lon = Null
              /\ lat_bnds = Null /\ lon_bnds = Null
        /\ ~gridfiles.sftlf =>
              land_fraction = Null /\ land_areas = Null /\ land_area = Null

\* the retained candidates, sorted by first time, before any removal
Sorted ==
    SortedByFirstTime(
        Thin(ScanFiles([data |-> <<>>, ntimes |-> 0, unit |-> Unbound],
                       [f \in DOMAIN files, v \in Names |-> ExtractTimeSeries(f, v)],
                       NameList, 1).data,
             NameList, 1))

\* c[i] ends later than c[i+1]
Violates(c, i) == i < Len(c) /\ Last(c[i].t) > Last(c[i + 1].t)

\* c without its violating entries, from entry i on
RECURSIVE Survivors(_, _)
Survivors(c, i) ==
    IF i > Len(c) THEN <<>>
    ELSE (IF Violates(c, i) THEN <<>> ELSE <<c[i]>>) \o Survivors(c, i + 1)

\* C9: after overlap elimination the list is the sorted list without the
\* entries that end later than their successor, and the running total is
\* the sum of the survivors' in-window counts.
C9_DropsExactlyViolators ==
    pc = "assemble" =>
        /\ data = Survivors(Sorted, 1)
        /\ ntimes = SeqSum([k \in DOMAIN data |-> data[k].nt])

\* C10: the unit the conversion starts from, and the unit returned when no
\* output unit is requested, is the unit of a file whose points are in the
\* composite.
C10_UnitOfComposite ==
    /\ pc = "convert" =>
          \E f \in DOMAIN files : Contributor(f) /\ files[f].unit = unit
    /\ (pc = "returned" /\ output_unit = "") =>
          \E f \in DOMAIN files : Contributor(f) /\ files[f].unit = unit

====
